---------------------------- MODULE Spec2Model ----------------------------
(***************************************************************************)
(* A model of package dataframe (src/dataframe.go): data frames decoded    *)
(* from JSON documents, extraction of float64 vectors from a row           *)
(* (GetFrameFloat64, indices, elemType), the DataSet cursor (Next, Reset)  *)
(* and the two channel producers (DataFrame.GetChanFloat64 and             *)
(* DataSet.GetChanFloat64).                                                *)
(*                                                                         *)
(* Conventions.  Go strings that the code takes apart (the var_types tags) *)
(* are sequences of one-character strings.  Go indices are 0-based and are *)
(* kept 0-based: At(s, i) reads s[i].  float64 values are small integers:  *)
(* the code only copies them.  A Go run-time panic (index out of range, a  *)
(* failed type assertion) is the outcome kind "panic".                     *)
(***************************************************************************)
EXTENDS Integers, Sequences, FiniteSets, TLC

VARIABLES
    doc,      \* the JSON document handed to ReadDataFrame
    df,       \* SpecExtract: the *DataFrame ReadDataFrame returned (<<>> before the call)
    call,     \* SpecExtract: the last GetFrameFloat64 call and what it returned
    disk,     \* the files under ds.Path: file name -> document, or unreadable
    ds,       \* the DataSet: Files and index (the cursor)
    hist,     \* Spec: the calls made on ds so far, oldest first
    vector,   \* the *VectorSpec handed to a GetChanFloat64
    frame,    \* the DataFrame the producer goroutine iterates over
    prod,     \* the producer goroutine: pc, row counter i, extracted slice sl,
              \* and (history) the cursor when the goroutine started
    ch,       \* the channel: buffered vectors, closed flag
    tasks,    \* SpecRace: two goroutines of DataSet.GetChanFloat64 on one
              \* DataSet: where each is inside ds.Next(), the files it loaded
    recv      \* the consumer: the vectors received from ch, oldest first,
              \* whether its range loop has seen the channel closed, whether it
              \* has stopped receiving for good, and (history) what it received
              \* from an earlier channel of the same DataSet

vars == <<doc, df, call, disk, ds, hist, vector, frame, prod, ch, recv, tasks>>

-----------------------------------------------------------------------------
(* Bounds of the model *)

\* Columns of a document in SpecExtract.
MaxCols == 2
\* Names in a VectorSpec in SpecExtract.
MaxSpecLen == 3
\* Files in a DataSet.
MaxFiles == 2
\* Rows of a file of a DataSet.
MaxRows == 3
\* The capacity of a channel.  The source sets 1000 (src/dataframe.go:23); the
\* model takes a capacity below MaxRows, so that a producer meets a full
\* channel.
BUFFER_SIZE == 2
\* Calls recorded in hist.
MaxCalls == MaxFiles + 3

-----------------------------------------------------------------------------
(* Go values *)

\* s[i] of a Go slice, 0-based.
At(s, i) == s[i + 1]

\* The tags of var_types, as character sequences.
TagFloat64 == <<"f", "l", "o", "a", "t", "6", "4">>
TagFloat64Array == <<"[", "]">> \o TagFloat64
TagString == <<"s", "t", "r", "i", "n", "g">>
TagInt == <<"i", "n", "t">>
TagEmpty == <<>>

\* What encoding/json decodes a cell into (an interface{}): nil for null,
\* float64 for a number, string for a string, []interface{} for an array.
\* The elements of an array are interface{} values themselves: elems holds
\* their type tags and numbers.
NilCell == [t |-> "nil", num |-> 0, elems |-> <<>>]
NumCell(x) == [t |-> "float64", num |-> x, elems |-> <<>>]
StrCell == [t |-> "string", num |-> 0, elems |-> <<>>]
ArrCell(es) == [t |-> "[]interface {}", num |-> 0, elems |-> es]
NumElem(x) == [t |-> "float64", num |-> x]
StrElem == [t |-> "string", num |-> 0]

\* A *VectorSpec: the pointer may be nil, the VarNames slice may be nil.
NilVector == [ptrNil |-> TRUE, namesNil |-> TRUE, VarNames |-> <<>>]
NilNames == [ptrNil |-> FALSE, namesNil |-> TRUE, VarNames |-> <<>>]
VectorOf(names) == [ptrNil |-> FALSE, namesNil |-> FALSE, VarNames |-> names]

\* What GetFrameFloat64 returns: (floats, err).  kind is "ok" (err == nil),
\* "err" or "panic"; floatsNil tells a nil slice from an empty one.
Floats(fs) == [kind |-> "ok", err |-> "", floatsNil |-> FALSE, floats |-> fs]
Failure(e, isNil) == [kind |-> "err", err |-> e, floatsNil |-> isNil, floats |-> <<>>]
Panic == [kind |-> "panic", err |-> "", floatsNil |-> TRUE, floats |-> <<>>]

\* The errors of the package.
ErrVectorNil == "vector is nil"
ErrVarNamesNil == "VarNames field in vector is nil, must provide at least one var name."
ErrNoVariable == "There is no variable in the data frame."
InvalidVectorSpecError == "invalid vector spec"
ErrNilVariable == "variable is nil."
ErrNotSupported == "Vector of type in not supported."

-----------------------------------------------------------------------------
(* ReadDataFrame *)

\* Mutant of BuildVarMap: a name already in the map keeps its first position.
RECURSIVE BuildVarMapFirstWins(_, _, _)
BuildVarMapFirstWins(names, k, m) ==
    IF k >= Len(names) THEN m
    ELSE LET v == At(names, k)
         IN BuildVarMapFirstWins(names, k + 1,
                [n \in DOMAIN m \cup {v} |-> IF n \in DOMAIN m THEN m[n] ELSE k])

\* The loop m[v] = k over df.VarNames: a later position overwrites an earlier one.
RECURSIVE BuildVarMap(_, _, _)
BuildVarMap(names, k, m) ==
    IF k >= Len(names) THEN m
    ELSE LET v == At(names, k)
         IN BuildVarMap(names, k + 1,
                [n \in DOMAIN m \cup {v} |-> IF n = v THEN k ELSE m[n]])

EmptyMap == [n \in {} |-> 0]

\* A document that decodes: the DataFrame with its varMap.
ReadDataFrame(d) ==
    [VarNames |-> d.var_names, VarTypes |-> d.var_types, Data |-> d.data,
     varMap |-> BuildVarMap(d.var_names, 0, EmptyMap)]

-----------------------------------------------------------------------------
(* elemType and indices *)

\* strings.LastIndex(t, "]"): the 0-based place of the last "]", or -1.
LastIndex(t) ==
    LET hits == {i \in 0..(Len(t) - 1) : At(t, i) = "]"}
    IN IF hits = {} THEN -1 ELSE CHOOSE i \in hits : \A j \in hits : j <= i

\* t[idx:] with idx = LastIndex + 1.
elemType(t) ==
    LET idx == LastIndex(t) + 1
    IN SubSeq(t, idx + 1, Len(t))

\* Mutant of IndicesFrom: the index found replaces the list instead of being
\* appended to it.
RECURSIVE IndicesFromOverwrite(_, _, _, _, _)
IndicesFromOverwrite(f, names, k, lastType, acc) ==
    IF k >= Len(names) THEN [kind |-> "ok", err |-> "", indices |-> acc]
    ELSE LET v == At(names, k)
         IN IF v \notin DOMAIN f.varMap
            THEN [kind |-> "err", err |-> ErrNoVariable, indices |-> acc]
            ELSE LET idx == f.varMap[v]
                 IN IF idx >= Len(f.VarTypes)
                    THEN [kind |-> "panic", err |-> "", indices |-> <<>>]
                    ELSE IF Len(lastType) > 0
                            /\ lastType # elemType(At(f.VarTypes, idx))
                    THEN [kind |-> "err", err |-> InvalidVectorSpecError, indices |-> <<>>]
                    ELSE IndicesFromOverwrite(f, names, k + 1,
                                              elemType(At(f.VarTypes, idx)), <<idx>>)

\* Mutant of IndicesFrom: a name that is no column is skipped instead of
\* ending the loop with the error.
RECURSIVE IndicesFromSkipAbsent(_, _, _, _, _)
IndicesFromSkipAbsent(f, names, k, lastType, acc) ==
    IF k >= Len(names) THEN [kind |-> "ok", err |-> "", indices |-> acc]
    ELSE LET v == At(names, k)
         IN IF v \notin DOMAIN f.varMap
            THEN IndicesFromSkipAbsent(f, names, k + 1, lastType, acc)
            ELSE LET idx == f.varMap[v]
                 IN IF idx >= Len(f.VarTypes)
                    THEN [kind |-> "panic", err |-> "", indices |-> <<>>]
                    ELSE IF Len(lastType) > 0
                            /\ lastType # elemType(At(f.VarTypes, idx))
                    THEN [kind |-> "err", err |-> InvalidVectorSpecError, indices |-> <<>>]
                    ELSE IndicesFromSkipAbsent(f, names, k + 1,
                                               elemType(At(f.VarTypes, idx)),
                                               Append(acc, idx))

\* The loop of indices over vector.VarNames from position k on, with the
\* running lastType and the indices appended so far.  df.VarTypes[idx] is
\* read in every iteration that finds the name (in the comparison, or in the
\* assignment to lastType after it): an idx past the end of VarTypes panics.
RECURSIVE IndicesFrom(_, _, _, _, _)
IndicesFrom(f, names, k, lastType, acc) ==
    IF k >= Len(names) THEN [kind |-> "ok", err |-> "", indices |-> acc]
    ELSE LET v == At(names, k)
         IN IF v \notin DOMAIN f.varMap
            THEN [kind |-> "err", err |-> ErrNoVariable, indices |-> acc]
            ELSE LET idx == f.varMap[v]
                 IN IF idx >= Len(f.VarTypes)
                    THEN [kind |-> "panic", err |-> "", indices |-> <<>>]
                    ELSE IF Len(lastType) > 0
                            /\ lastType # elemType(At(f.VarTypes, idx))
                    THEN [kind |-> "err", err |-> InvalidVectorSpecError, indices |-> <<>>]
                    ELSE IndicesFrom(f, names, k + 1,
                                     elemType(At(f.VarTypes, idx)),
                                     Append(acc, idx))

indices(f, v) == IndicesFrom(f, v.VarNames, 0, <<>>, <<>>)

-----------------------------------------------------------------------------
(* GetFrameFloat64 *)

\* The inner loop over the elements of an array cell: v.(float64) panics on
\* an element that is no float64.
RECURSIVE AppendElems(_, _, _)
AppendElems(es, k, floats) ==
    IF k >= Len(es) THEN Floats(floats)
    ELSE IF At(es, k).t # "float64" THEN Panic
    ELSE AppendElems(es, k + 1, Append(floats, At(es, k).num))

\* The loop over the resolved indices, from position k on.
RECURSIVE CellsFrom(_, _, _, _, _)
CellsFrom(f, row, idxs, k, floats) ==
    IF k >= Len(idxs) THEN Floats(floats)
    ELSE LET v == At(idxs, k)
         IN IF row >= Len(f.Data) \/ v >= Len(At(f.Data, row)) THEN Panic
            ELSE LET value == At(At(f.Data, row), v)
                 IN CASE value.t = "nil" -> Failure(ErrNilVariable, TRUE)
                      [] value.t = "float64" ->
                            CellsFrom(f, row, idxs, k + 1, Append(floats, value.num))
                      [] value.t = "[]interface {}" ->
                            LET r == AppendElems(value.elems, 0, floats)
                            IN IF r.kind = "ok"
                               THEN CellsFrom(f, row, idxs, k + 1, r.floats)
                               ELSE r
                      [] OTHER -> Failure(ErrNotSupported, TRUE)

GetFrameFloat64(f, row, v) ==
    IF v.ptrNil THEN Failure(ErrVectorNil, TRUE)
    ELSE IF v.namesNil THEN Failure(ErrVarNamesNil, TRUE)
    ELSE LET r == indices(f, v)
         IN CASE r.kind = "panic" -> Panic
              [] r.kind = "err" -> Failure(r.err, FALSE)
              [] OTHER -> CellsFrom(f, row, r.indices, 0, <<>>)

-----------------------------------------------------------------------------
(* The DataSet: ReadDataFrameFile, Next, Reset *)

\* disk[fn] is <<>> for a file that cannot be opened or decoded, else <<document>>.
ReadDataFrameFile(dsk, fn) ==
    IF dsk[fn] = <<>> THEN [df |-> <<>>, e |-> "error"]
    ELSE [df |-> <<ReadDataFrame(dsk[fn][1])>>, e |-> "nil"]

\* Mutant of DataSetNext: io.EOF is returned without setting the index to 0.
DataSetNextNoRewind(d, dsk) ==
    IF d.index = Len(d.Files)
    THEN [ds |-> d, df |-> <<>>, e |-> "EOF"]
    ELSE IF d.index > Len(d.Files)
    THEN [ds |-> d, df |-> <<>>, e |-> "panic"]
    ELSE LET r == ReadDataFrameFile(dsk, At(d.Files, d.index))
         IN IF r.e # "nil"
            THEN [ds |-> d, df |-> <<>>, e |-> r.e]
            ELSE [ds |-> [d EXCEPT !.index = d.index + 1], df |-> r.df, e |-> "nil"]

\* Mutant of DataSetNext: the test for the end of the list is missing.
DataSetNextNoEndTest(d, dsk) ==
    IF d.index >= Len(d.Files)
    THEN [ds |-> d, df |-> <<>>, e |-> "panic"]
    ELSE LET r == ReadDataFrameFile(dsk, At(d.Files, d.index))
         IN IF r.e # "nil"
            THEN [ds |-> d, df |-> <<>>, e |-> r.e]
            ELSE [ds |-> [d EXCEPT !.index = d.index + 1], df |-> r.df, e |-> "nil"]

\* Mutant of DataSetNext: the index is incremented before the load is tested.
DataSetNextAdvanceOnError(d, dsk) ==
    IF d.index = Len(d.Files)
    THEN [ds |-> [d EXCEPT !.index = 0], df |-> <<>>, e |-> "EOF"]
    ELSE IF d.index > Len(d.Files)
    THEN [ds |-> d, df |-> <<>>, e |-> "panic"]
    ELSE LET r == ReadDataFrameFile(dsk, At(d.Files, d.index))
         IN [ds |-> [d EXCEPT !.index = d.index + 1], df |-> r.df, e |-> r.e]

\* ds.Next(): the DataSet after the call, the frame (<<>> for nil) and the error.
\* ds.Files[ds.index] with the index past the end panics.
DataSetNext(d, dsk) ==
    IF d.index = Len(d.Files)
    THEN [ds |-> [d EXCEPT !.index = 0], df |-> <<>>, e |-> "EOF"]
    ELSE IF d.index > Len(d.Files)
    THEN [ds |-> d, df |-> <<>>, e |-> "panic"]
    ELSE LET r == ReadDataFrameFile(dsk, At(d.Files, d.index))
         IN IF r.e # "nil"
            THEN [ds |-> d, df |-> <<>>, e |-> r.e]
            ELSE [ds |-> [d EXCEPT !.index = d.index + 1], df |-> r.df, e |-> "nil"]

\* Mutant of DataSetReset: the index is left as it is.
DataSetResetNoop(d) == d

\* ds.Reset()
DataSetReset(d) == [d EXCEPT !.index = 0]

-----------------------------------------------------------------------------
(* The inputs of SpecExtract: documents of one row and vector specs *)

\* Sequences over S of length lo..hi.
SeqsOf(S, lo, hi) == UNION {[1..n -> S] : n \in lo..hi}

\* The column names a document may declare, and one it never declares.
ColNames == {"wifi", "acceleration"}
AbsentName == "speed"

\* The cell shapes of a row at column position j (0-based).  The numbers
\* differ from position to position, so a vector shows which cells it was
\* built from and in which order.
NumAt(j) == NumCell(10 * (j + 1) + 1)
ArrAt(j) == ArrCell(<<NumElem(10 * (j + 1) + 2), NumElem(10 * (j + 1) + 3)>>)
BadArrAt(j) == ArrCell(<<NumElem(10 * (j + 1) + 2), StrElem>>)

\* A column as a document declares and fills it: its var_types tag and the
\* shape of its cell.
ColumnKinds ==
    { [tag |-> TagFloat64, shape |-> "num"],
      [tag |-> TagFloat64Array, shape |-> "arr"],
      [tag |-> TagString, shape |-> "str"],
      [tag |-> TagInt, shape |-> "num"],
      [tag |-> TagEmpty, shape |-> "num"],
      [tag |-> TagFloat64, shape |-> "null"],
      [tag |-> TagFloat64Array, shape |-> "badarr"] }

CellOf(shape, j) ==
    CASE shape = "num" -> NumAt(j)
      [] shape = "arr" -> ArrAt(j)
      [] shape = "str" -> StrCell
      [] shape = "null" -> NilCell
      [] OTHER -> BadArrAt(j)

\* A document with columns `names` of kinds `kinds`; typed = FALSE leaves
\* var_types out of the document (the field decodes to a nil slice).
Document(names, kinds, typed) ==
    [var_names |-> names,
     var_types |-> IF typed THEN [j \in 1..Len(names) |-> kinds[j].tag] ELSE <<>>,
     data |-> << [j \in 1..Len(names) |-> CellOf(kinds[j].shape, j - 1)] >>]

ExtractDocs ==
    UNION { { Document(names, kinds, typed) :
                names \in [1..n -> ColNames], kinds \in [1..n -> ColumnKinds],
                typed \in BOOLEAN }
            : n \in 0..MaxCols }

ExtractVectors ==
    {NilVector, NilNames}
        \cup {VectorOf(ns) : ns \in SeqsOf(ColNames \cup {AbsentName}, 0, MaxSpecLen)}

\* Values of the variables a specification does not use.
NoDoc == [var_names |-> <<>>, var_types |-> <<>>, data |-> <<>>]
NoDataSet == [Path |-> "", Files |-> <<>>, index |-> 0]
NoFrame == ReadDataFrame(NoDoc)
NoProd == [pc |-> "none", i |-> 0, sl |-> <<>>, start |-> 0]
NoChan == [buf |-> <<>>, closed |-> FALSE]
NoTasks == [pc |-> <<>>, loaded |-> <<>>, overlapped |-> FALSE, ended |-> FALSE]
NoRecv == [vs |-> <<>>, done |-> FALSE, stopped |-> FALSE, first |-> <<>>]

ExtractIdle ==
    /\ disk = <<>> /\ ds = NoDataSet /\ hist = <<>>
    /\ vector = NilVector /\ frame = NoFrame /\ prod = NoProd /\ tasks = NoTasks
    /\ ch = NoChan /\ recv = NoRecv

InitExtract ==
    /\ doc \in ExtractDocs
    /\ df = <<>>
    /\ call = <<>>
    /\ ExtractIdle

\* df, e := ReadDataFrame(r) on the document.
LoadFrame ==
    /\ df = <<>>
    /\ df' = <<ReadDataFrame(doc)>>
    /\ UNCHANGED <<tasks, doc, call, disk, ds, hist, vector, frame, prod, ch, recv>>

\* floats, err := df.GetFrameFloat64(row, v) on an in-range row.  The frame
\* is never written after ReadDataFrame, so a call does not depend on the
\* calls before it: a behaviour makes one.
Extract(row, v) ==
    /\ df # <<>>
    /\ call = <<>>
    /\ call' = << [row |-> row, vector |-> v, out |-> GetFrameFloat64(df[1], row, v)] >>
    /\ UNCHANGED <<tasks, doc, df, disk, ds, hist, vector, frame, prod, ch, recv>>

NextExtract ==
    \/ LoadFrame
    \/ \E row \in 0..(Len(doc.data) - 1), v \in ExtractVectors : Extract(row, v)

SpecExtract == InitExtract /\ [][NextExtract]_vars

-----------------------------------------------------------------------------
(* Claims about GetFrameFloat64, checked under SpecExtract *)

\* The call of the behaviour, once made.
Called == call # <<>>
TheFrame == df[1]
TheCall == call[1]
CallNames == TheCall.vector.VarNames
NamesGiven == Called /\ ~TheCall.vector.ptrNil /\ ~TheCall.vector.namesNil

\* Column `name` is declared and has a var_types entry.
IsColumn(name) == name \in DOMAIN TheFrame.varMap
HasTag(name) == IsColumn(name) /\ TheFrame.varMap[name] < Len(TheFrame.VarTypes)
\* Its tag with the array marker stripped: the characters after the last "]".
TagOf(name) == At(TheFrame.VarTypes, TheFrame.varMap[name])
StrippedTag(name) ==
    LET t == TagOf(name)
        close == {i \in 1..Len(t) : t[i] = "]"}
    IN [i \in 1..(Len(t) - Cardinality({j \in 1..Len(t) : \E c \in close : j <= c}))
            |-> t[i + Cardinality({j \in 1..Len(t) : \E c \in close : j <= c})]]
\* The cell of column `name` in the row of the call.
CellAt(name) == At(At(TheFrame.Data, TheCall.row), TheFrame.varMap[name])

\* What one column contributes to a vector: a scalar itself, an array its
\* elements in array order.
IsNumeric(cell) ==
    \/ cell.t = "float64"
    \/ cell.t = "[]interface {}" /\ \A i \in 1..Len(cell.elems) : cell.elems[i].t = "float64"
Contribution(cell) ==
    IF cell.t = "float64" THEN <<cell.num>>
    ELSE [i \in 1..Len(cell.elems) |-> cell.elems[i].num]

\* The extraction of the single column `name` at the row of the call.
Single(name) == GetFrameFloat64(TheFrame, TheCall.row, VectorOf(<<name>>))

\* C6 as stated: whenever the two single-column extractions succeed, the
\* extraction of [a, b] succeeds and is the first result followed by the second.
C6_ConcatWheneverSinglesSucceed ==
    (NamesGiven /\ Len(CallNames) = 2) =>
        LET a == CallNames[1]
            b == CallNames[2]
        IN (Single(a).kind = "ok" /\ Single(b).kind = "ok") =>
                /\ TheCall.out.kind = "ok"
                /\ TheCall.out.floats = Single(a).floats \o Single(b).floats

\* C6 amended: the same, for two columns that pass the element type check of
\* indices (the tag of a, array marker stripped, is empty or equal to that of
\* b); for two columns that fail it, [a, b] yields InvalidVectorSpecError.
C6_ConcatOfCompatibleColumns ==
    (NamesGiven /\ Len(CallNames) = 2) =>
        LET a == CallNames[1]
            b == CallNames[2]
        IN (Single(a).kind = "ok" /\ Single(b).kind = "ok") =>
                IF StrippedTag(a) = <<>> \/ StrippedTag(a) = StrippedTag(b)
                THEN /\ TheCall.out.kind = "ok"
                     /\ TheCall.out.floats = Single(a).floats \o Single(b).floats
                     /\ TheCall.out.floats = Contribution(CellAt(a)) \o Contribution(CellAt(b))
                ELSE /\ TheCall.out.kind = "err"
                     /\ TheCall.out.err = InvalidVectorSpecError

\* C6 witness: an array column followed by a different scalar column was extracted.
C6_Witness ==
    /\ NamesGiven /\ Len(CallNames) = 2
    /\ CallNames[1] # CallNames[2]
    /\ Single(CallNames[1]).kind = "ok" /\ Single(CallNames[2]).kind = "ok"
    /\ TheCall.out.kind = "ok"
    /\ CellAt(CallNames[1]).t = "[]interface {}"
    /\ Len(TheCall.out.floats) = 3

\* C7 as stated: a spec that names columns of two different element types
\* (one of which may be the empty tag) yields InvalidVectorSpecError.
C7_MixedTypesAreInvalid ==
    (/\ NamesGiven
     /\ \A i \in 1..Len(CallNames) : HasTag(CallNames[i])
     /\ \E i, j \in 1..Len(CallNames) : StrippedTag(CallNames[i]) # StrippedTag(CallNames[j]))
        => /\ TheCall.out.kind = "err"
           /\ TheCall.out.err = InvalidVectorSpecError

\* C8 as stated: a spec with zero names yields an error, never a vector.
C8_EmptyVarNamesFails ==
    (Called /\ ~TheCall.vector.ptrNil /\ Len(CallNames) = 0) => TheCall.out.kind = "err"

\* The names of the call before the first one that is no column.
FirstAbsent ==
    CHOOSE i \in 1..Len(CallNames) :
        /\ ~IsColumn(CallNames[i])
        /\ \A j \in 1..(i - 1) : IsColumn(CallNames[j])
SomeAbsent == NamesGiven /\ \E i \in 1..Len(CallNames) : ~IsColumn(CallNames[i])

\* C9 as stated: a spec with a name that is no column yields the unknown
\* column error, wherever the name stands and whatever the types of the names
\* before it (stated for the specs whose other names all have a var_types entry).
C9_AbsentNameIsUnknownColumn ==
    (SomeAbsent /\ \A i \in 1..Len(CallNames) : IsColumn(CallNames[i]) => HasTag(CallNames[i]))
        => /\ TheCall.out.kind = "err"
           /\ TheCall.out.err = ErrNoVariable

\* C9 amended: a spec with a name that is no column never yields a vector;
\* when the names before the first such name all have a var_types entry, it
\* yields the unknown column error if each of them has the element type of
\* the one before it (or the one before it has the empty element type), and
\* InvalidVectorSpecError otherwise.
C9_AbsentNameAfterCheckedPrefix ==
    SomeAbsent =>
        /\ TheCall.out.kind # "ok"
        /\ (\A j \in 1..(FirstAbsent - 1) : HasTag(CallNames[j])) =>
                /\ TheCall.out.kind = "err"
                /\ TheCall.out.err =
                     IF \A j \in 2..(FirstAbsent - 1) :
                            \/ StrippedTag(CallNames[j - 1]) = <<>>
                            \/ StrippedTag(CallNames[j - 1]) = StrippedTag(CallNames[j])
                     THEN ErrNoVariable
                     ELSE InvalidVectorSpecError

\* C9 witness: the third name is no column, the two before it are different
\* columns of one element type, and the call reported the unknown column.
C9_Witness ==
    /\ SomeAbsent /\ FirstAbsent = 3
    /\ CallNames[1] # CallNames[2]
    /\ TheCall.out.kind = "err" /\ TheCall.out.err = ErrNoVariable

\* The resolved cells of the call, when indices succeeds: the first one, in
\* spec order, that is neither a number nor an array of numbers.
Resolved == indices(TheFrame, TheCall.vector)
BadCells ==
    {k \in 1..Len(CallNames) : ~IsNumeric(At(At(TheFrame.Data, TheCall.row), Resolved.indices[k]))}
FirstBadCell ==
    LET k == CHOOSE k \in BadCells : \A m \in BadCells : k <= m
    IN At(At(TheFrame.Data, TheCall.row), Resolved.indices[k])

\* C10 as stated: with a cell that is neither a number nor an array of
\* numbers, the call returns an error and a nil vector: the nil variable
\* error for null, the unsupported type error for any other shape.
C10_BadCellIsAnError ==
    (NamesGiven /\ Resolved.kind = "ok" /\ BadCells # {}) =>
        /\ TheCall.out.kind = "err"
        /\ TheCall.out.floatsNil
        /\ TheCall.out.err =
             IF FirstBadCell.t = "nil" THEN ErrNilVariable ELSE ErrNotSupported

-----------------------------------------------------------------------------
(* The files of a DataSet *)

FileNames == {"file1.json", "file2.json"}
FileNo(fn) == IF fn = "file1.json" THEN 1 ELSE 2

\* A document in the layout of the package documentation (room, wifi,
\* acceleration, with var_types) for file number k, with n rows; row r holds
\* two wifi readings and an acceleration that no other row or file holds.
\* nullRow names the row whose acceleration is null (-1: none).
FileRow(k, r, isNull) ==
    << StrCell,
       ArrCell(<<NumElem(100 * k + 10 * r + 1), NumElem(100 * k + 10 * r + 2)>>),
       IF isNull THEN NilCell ELSE NumCell(100 * k + 10 * r + 3) >>
FileDoc(k, n, nullRow) ==
    [var_names |-> <<"room", "wifi", "acceleration">>,
     var_types |-> <<TagString, TagFloat64Array, TagFloat64>>,
     data |-> [r \in 1..n |-> FileRow(k, r - 1, r - 1 = nullRow)]]

\* What a file may hold: nothing readable, a document of 0..MaxRows sound
\* rows, or a document of MaxRows rows one of which has a null acceleration.
FileContents(fn) ==
    {<<>>} \cup { <<FileDoc(FileNo(fn), n, -1)>> : n \in 0..MaxRows }
           \cup { <<FileDoc(FileNo(fn), MaxRows, b)>> : b \in 0..(MaxRows - 1) }

Disks == {d \in [FileNames -> UNION {FileContents(fn) : fn \in FileNames}] :
            \A fn \in FileNames : d[fn] \in FileContents(fn)}
\* The disks for a file list: a file the list does not name is never read,
\* and is left out (unreadable).
DisksFor(files) ==
    {d \in Disks : \A fn \in FileNames :
        (\A i \in 1..Len(files) : files[i] # fn) => d[fn] = <<>>}

\* For the calls of Next alone only the file read matters, not its rows: a
\* file is unreadable or holds its full document.
PlainContents(fn) == {<<>>, <<FileDoc(FileNo(fn), MaxRows, -1)>>}
PlainDisks == {d \in Disks : \A fn \in FileNames : d[fn] \in PlainContents(fn)}

DataSets == {[Path |-> "data", Files |-> fs, index |-> 0] : fs \in SeqsOf(FileNames, 0, MaxFiles)}

-----------------------------------------------------------------------------
(* Spec: one task calls Next and Reset on a DataSet *)

DataSetIdle ==
    /\ doc = NoDoc /\ df = <<>> /\ call = <<>>
    /\ vector = NilVector /\ frame = NoFrame /\ prod = NoProd /\ tasks = NoTasks
    /\ ch = NoChan /\ recv = NoRecv

Init ==
    /\ disk \in PlainDisks
    /\ ds \in DataSets
    /\ hist = <<>>
    /\ DataSetIdle

\* df, e := ds.Next(), the whole call.
Next ==
    /\ Len(hist) < MaxCalls
    /\ LET r == DataSetNext(ds, disk)
       IN /\ ds' = r.ds
          /\ hist' = Append(hist, [op |-> "Next", e |-> r.e, df |-> r.df, index |-> r.ds.index])
    /\ UNCHANGED <<tasks, doc, df, call, disk, vector, frame, prod, ch, recv>>

\* ds.Reset()
Reset ==
    /\ Len(hist) < MaxCalls
    /\ ds' = DataSetReset(ds)
    /\ hist' = Append(hist, [op |-> "Reset", e |-> "nil", df |-> <<>>, index |-> DataSetReset(ds).index])
    /\ UNCHANGED <<tasks, doc, df, call, disk, vector, frame, prod, ch, recv>>

\* The environment: a file that could not be read is put in place between
\* two calls, so that os.Open and the decoding succeed from then on.
FileAppears(fn, content) ==
    /\ disk[fn] = <<>>
    /\ content # <<>>
    /\ disk' = [disk EXCEPT ![fn] = content]
    /\ UNCHANGED <<tasks, doc, df, call, ds, hist, vector, frame, prod, ch, recv>>

Step ==
    \/ Next
    \/ Reset
    \/ \E fn \in FileNames : \E content \in PlainContents(fn) : FileAppears(fn, content)

Spec == Init /\ [][Step]_vars

-----------------------------------------------------------------------------
(* Claims about Next and Reset, checked under Spec *)

\* The cursor before call number p of hist.
CursorBefore(p) == IF p = 1 THEN 0 ELSE hist[p - 1].index
\* Calls p..q of hist are calls of Next, none of them with a load error.
GoodNextRun(p, q) == \A j \in p..q : hist[j].op = "Next" /\ hist[j].e # "error"
\* The frame of files[i] (0-based).
FrameOfFile(i) == <<ReadDataFrame(disk[At(ds.Files, i)][1])>>

\* C1: in a run of calls of Next that starts at cursor 0 on n >= 1 files and
\* meets no load error, call k <= n returns the frame of files[k-1], call n+1
\* returns io.EOF and no frame and leaves the cursor at 0, and call n+2
\* returns the frame of files[0].
C1_NextCyclesThroughFiles ==
    LET n == Len(ds.Files)
    IN n >= 1 =>
        \A p \in 1..Len(hist) : \A k \in 1..(n + 2) :
            (CursorBefore(p) = 0 /\ p + k - 1 <= Len(hist) /\ GoodNextRun(p, p + k - 1)) =>
                LET h == hist[p + k - 1]
                IN IF k <= n
                   THEN h.e = "nil" /\ h.df = FrameOfFile(k - 1) /\ h.index = k
                   ELSE IF k = n + 1
                   THEN h.e = "EOF" /\ h.df = <<>> /\ h.index = 0
                   ELSE h.e = "nil" /\ h.df = FrameOfFile(0) /\ h.index = 1

\* C1 witness: n + 2 calls of Next on two different files, the last of which
\* returned the frame of files[0] again.
C1_Witness ==
    /\ Len(ds.Files) = 2 /\ ds.Files[1] # ds.Files[2]
    /\ Len(hist) = 4 /\ GoodNextRun(1, 4)
    /\ hist[3].e = "EOF"
    /\ hist[4].df = FrameOfFile(0)

\* C2: the cursor stays within 0..len(files), and no call of Next indexed
\* files past its end (which panics).
C2_CursorInRange ==
    /\ ds.index \in 0..Len(ds.Files)
    /\ \A p \in 1..Len(hist) :
            /\ hist[p].e # "panic"
            /\ hist[p].index \in 0..Len(ds.Files)
            /\ (hist[p].op = "Next" /\ hist[p].e \in {"nil", "error"}) =>
                    CursorBefore(p) < Len(ds.Files)

\* C2 witness: after a failed load, a Reset and further calls, the cursor
\* stands at len(files).
C2_Witness ==
    /\ Len(ds.Files) >= 1
    /\ ds.index = Len(ds.Files)
    /\ \E p, q \in 1..Len(hist) :
            /\ hist[p].op = "Next" /\ hist[p].e = "error"
            /\ hist[q].op = "Reset"

-----------------------------------------------------------------------------
(* The channel, its consumer, and the two producers *)

\* The vector specs handed to a GetChanFloat64.
StreamVectors == {VectorOf(<<"wifi", "acceleration">>), VectorOf(<<"acceleration">>)}

\* glog.Fatalf ends the process, and so does a panic in the goroutine: the
\* consumer runs only while neither has happened.
Alive == prod.pc \notin {"fatal", "panic"}

\* The consumer's `for v := range ch` receives the oldest vector.
Receive ==
    /\ Alive /\ prod.pc # "none"
    /\ ~recv.done /\ ~recv.stopped
    /\ ch.buf # <<>>
    /\ recv' = [recv EXCEPT !.vs = Append(recv.vs, Head(ch.buf))]
    /\ ch' = [ch EXCEPT !.buf = Tail(ch.buf)]
    /\ UNCHANGED <<tasks, doc, df, call, disk, ds, hist, vector, frame, prod>>

\* The range loop ends on a closed and drained channel.
ReceiveClosed ==
    /\ Alive /\ prod.pc # "none"
    /\ ~recv.done /\ ~recv.stopped
    /\ ch.buf = <<>> /\ ch.closed
    /\ recv' = [recv EXCEPT !.done = TRUE]
    /\ UNCHANGED <<tasks, doc, df, call, disk, ds, hist, vector, frame, prod, ch>>

\* The consumer leaves its loop and never receives again; nothing tells the
\* goroutine.
Abandon ==
    /\ Alive /\ prod.pc # "none"
    /\ ~recv.done /\ ~recv.stopped
    /\ recv' = [recv EXCEPT !.stopped = TRUE]
    /\ UNCHANGED <<tasks, doc, df, call, disk, ds, hist, vector, frame, prod, ch>>

\* Mutant of AfterExtract: a row that fails to extract is skipped.
AfterExtractSkip(out) ==
    CASE out.kind = "ok" -> [prod EXCEPT !.pc = "send", !.sl = out.floats]
      [] out.kind = "err" -> [prod EXCEPT !.pc = "row", !.i = prod.i + 1]
      [] OTHER -> [prod EXCEPT !.pc = "panic"]

\* sl, err := df.GetFrameFloat64(i, vector) in a producer, and what follows:
\* the send comes next, or glog.Fatalf on an error.
AfterExtract(out) ==
    CASE out.kind = "ok" -> [prod EXCEPT !.pc = "send", !.sl = out.floats]
      [] out.kind = "err" -> [prod EXCEPT !.pc = "fatal"]
      [] OTHER -> [prod EXCEPT !.pc = "panic"]

\* Mutant of SendStep: the send never waits.
SendStepUnbounded ==
    /\ prod.pc = "send"
    /\ ch' = [ch EXCEPT !.buf = Append(ch.buf, prod.sl)]
    /\ prod' = [prod EXCEPT !.pc = "row", !.i = prod.i + 1, !.sl = <<>>]

\* Mutant of SendStep: a vector that finds the channel full is dropped.
SendStepDropWhenFull ==
    /\ prod.pc = "send"
    /\ ch' = IF Len(ch.buf) < BUFFER_SIZE
             THEN [ch EXCEPT !.buf = Append(ch.buf, prod.sl)]
             ELSE ch
    /\ prod' = [prod EXCEPT !.pc = "row", !.i = prod.i + 1, !.sl = <<>>]

\* ch <- sl, which waits while the channel holds BUFFER_SIZE vectors; then i++.
SendStep ==
    /\ prod.pc = "send"
    /\ Len(ch.buf) < BUFFER_SIZE
    /\ ch' = [ch EXCEPT !.buf = Append(ch.buf, prod.sl)]
    /\ prod' = [prod EXCEPT !.pc = "row", !.i = prod.i + 1, !.sl = <<>>]

\* df.GetChanFloat64(vector): makes the channel and starts the goroutine.
FrameGetChan ==
    /\ prod.pc = "none"
    /\ ch' = [buf |-> <<>>, closed |-> FALSE]
    /\ prod' = [pc |-> "row", i |-> 0, sl |-> <<>>, start |-> 0]
    /\ UNCHANGED <<tasks, doc, df, call, disk, ds, hist, vector, frame, recv>>

\* Mutant of FrameRow: the loop stops one row early (i < df.N() - 1).
FrameRowShort ==
    /\ prod.pc = "row"
    /\ IF prod.i < Len(frame.Data) - 1
       THEN /\ prod' = AfterExtract(GetFrameFloat64(frame, prod.i, vector))
            /\ ch' = ch
       ELSE /\ ch' = [ch EXCEPT !.closed = TRUE]
            /\ prod' = [prod EXCEPT !.pc = "done"]
    /\ UNCHANGED <<tasks, doc, df, call, disk, ds, hist, vector, frame, recv>>

\* The goroutine of DataFrame.GetChanFloat64 at the loop test: the next row
\* is extracted, or the channel is closed after the last row.
FrameRow ==
    /\ prod.pc = "row"
    /\ IF prod.i < Len(frame.Data)
       THEN /\ prod' = AfterExtract(GetFrameFloat64(frame, prod.i, vector))
            /\ ch' = ch
       ELSE /\ ch' = [ch EXCEPT !.closed = TRUE]
            /\ prod' = [prod EXCEPT !.pc = "done"]
    /\ UNCHANGED <<tasks, doc, df, call, disk, ds, hist, vector, frame, recv>>

FrameSend ==
    /\ SendStep
    /\ UNCHANGED <<tasks, doc, df, call, disk, ds, hist, vector, frame, recv>>

InitFrameChan ==
    /\ doc \in {FileDoc(1, n, b) : n \in 0..MaxRows, b \in -1..(MaxRows - 1)}
    /\ frame = ReadDataFrame(doc)
    /\ vector \in StreamVectors
    /\ df = <<>> /\ call = <<>>
    /\ disk = <<>> /\ ds = NoDataSet /\ hist = <<>>
    /\ prod = NoProd /\ tasks = NoTasks /\ ch = NoChan /\ recv = NoRecv

NextFrameChan ==
    \/ FrameGetChan
    \/ FrameRow
    \/ FrameSend
    \/ Receive
    \/ ReceiveClosed
    \/ Abandon

SpecFrameChan == InitFrameChan /\ [][NextFrameChan]_vars

\* The Go scheduler keeps running a goroutine that can take a step.
SpecFrameChanFair == SpecFrameChan /\ WF_vars(FrameRow) /\ WF_vars(FrameSend)

\* ds.GetChanFloat64(vector): makes the channel and starts the goroutine.
DataSetGetChan ==
    /\ prod.pc = "none"
    /\ ch' = [buf |-> <<>>, closed |-> FALSE]
    /\ prod' = [pc |-> "next", i |-> 0, sl |-> <<>>, start |-> ds.index]
    /\ UNCHANGED <<tasks, doc, df, call, disk, ds, hist, vector, frame, recv>>

\* The goroutine of DataSet.GetChanFloat64 at df, e := ds.Next(): io.EOF
\* closes the channel and ends the loop, another error is fatal, a frame
\* starts the loop over its rows.
ChanNext ==
    /\ prod.pc = "next"
    /\ LET r == DataSetNext(ds, disk)
       IN /\ ds' = r.ds
          /\ CASE r.e = "EOF" ->
                    /\ ch' = [ch EXCEPT !.closed = TRUE]
                    /\ prod' = [prod EXCEPT !.pc = "done"]
                    /\ frame' = frame
               [] r.e = "nil" ->
                    /\ ch' = ch
                    /\ prod' = [prod EXCEPT !.pc = "row", !.i = 0]
                    /\ frame' = r.df[1]
               [] r.e = "panic" ->
                    /\ ch' = ch
                    /\ prod' = [prod EXCEPT !.pc = "panic"]
                    /\ frame' = frame
               [] OTHER ->
                    /\ ch' = ch
                    /\ prod' = [prod EXCEPT !.pc = "fatal"]
                    /\ frame' = frame
    /\ UNCHANGED <<tasks, doc, df, call, disk, hist, vector, recv>>

\* Mutant of ChanRow: the loop over the rows stops one row early.
ChanRowShort ==
    /\ prod.pc = "row"
    /\ prod' = IF prod.i < Len(frame.Data) - 1
               THEN AfterExtract(GetFrameFloat64(frame, prod.i, vector))
               ELSE [prod EXCEPT !.pc = "next"]
    /\ UNCHANGED <<tasks, doc, df, call, disk, ds, hist, vector, frame, ch, recv>>

\* The goroutine at the test of the loop over the rows of the frame.
ChanRow ==
    /\ prod.pc = "row"
    /\ prod' = IF prod.i < Len(frame.Data)
               THEN AfterExtract(GetFrameFloat64(frame, prod.i, vector))
               ELSE [prod EXCEPT !.pc = "next"]
    /\ UNCHANGED <<tasks, doc, df, call, disk, ds, hist, vector, frame, ch, recv>>

ChanSend ==
    /\ SendStep
    /\ UNCHANGED <<tasks, doc, df, call, disk, ds, hist, vector, frame, recv>>

\* Before it opens the channel, the caller may have called ds.Next() itself.
NextBeforeChan ==
    /\ prod.pc = "none"
    /\ ds' = DataSetNext(ds, disk).ds
    /\ UNCHANGED <<tasks, doc, df, call, disk, hist, vector, frame, prod, ch, recv>>

\* After its loop over the first channel has ended, the caller calls
\* ds.GetChanFloat64(vector) again and ranges over the new channel.
Reopen ==
    /\ prod.pc = "done" /\ recv.done
    /\ recv.first = <<>>
    /\ ch' = [buf |-> <<>>, closed |-> FALSE]
    /\ prod' = [pc |-> "next", i |-> 0, sl |-> <<>>, start |-> ds.index]
    /\ recv' = [vs |-> <<>>, done |-> FALSE, stopped |-> FALSE, first |-> <<recv.vs>>]
    /\ UNCHANGED <<tasks, doc, df, call, disk, ds, hist, vector, frame>>

InitDataSetChan ==
    /\ ds \in DataSets
    /\ disk \in DisksFor(ds.Files)
    /\ vector \in StreamVectors
    /\ doc = NoDoc /\ df = <<>> /\ call = <<>>
    /\ hist = <<>> /\ frame = NoFrame
    /\ prod = NoProd /\ tasks = NoTasks /\ ch = NoChan /\ recv = NoRecv

NextDataSetChan ==
    \/ NextBeforeChan
    \/ DataSetGetChan
    \/ ChanNext
    \/ ChanRow
    \/ ChanSend
    \/ Receive
    \/ ReceiveClosed

SpecDataSetChan == InitDataSetChan /\ [][NextDataSetChan]_vars

\* The caller may open a second channel after the first; the scheduler keeps
\* running the goroutine, and the consumer keeps ranging over the channel.
NextDataSetChanTwice == NextDataSetChan \/ Reopen

SpecDataSetChanFair ==
    /\ InitDataSetChan /\ [][NextDataSetChanTwice]_vars
    /\ WF_vars(ChanNext) /\ WF_vars(ChanRow) /\ WF_vars(ChanSend)
    /\ WF_vars(Receive) /\ WF_vars(ReceiveClosed)

-----------------------------------------------------------------------------
(* Claims about the channels, checked under SpecFrameChan and SpecDataSetChan *)

IsPrefix(s, t) == Len(s) <= Len(t) /\ SubSeq(t, 1, Len(s)) = s

\* Every row of frame f extracts under v, and the vectors of its rows in row order.
AllRowsExtract(f, v) == \A i \in 0..(Len(f.Data) - 1) : GetFrameFloat64(f, i, v).kind = "ok"
RowVectors(f, v) == [i \in 1..Len(f.Data) |-> GetFrameFloat64(f, i - 1, v).floats]

\* The vectors the producer has sent so far, in the order the consumer
\* receives them: those received, then those still in the channel.
Delivered == recv.vs \o ch.buf

\* C3: for a frame all of whose rows extract, the vectors sent on the channel
\* of DataFrame.GetChanFloat64 are at any time the vectors of rows 0, 1, ... in
\* row order; once the channel is closed they are those of all rowCount()
\* rows, and that is what the consumer has received when its loop ends.
C3_FrameChanEqualsRows ==
    AllRowsExtract(frame, vector) =>
        /\ IsPrefix(Delivered, RowVectors(frame, vector))
        /\ ch.closed => Delivered = RowVectors(frame, vector)
        /\ recv.done => /\ recv.vs = RowVectors(frame, vector)
                        /\ Len(recv.vs) = Len(frame.Data)

\* C3 witness: the consumer's loop ended after it received the vectors of
\* MaxRows rows, more than the channel holds.
C3_Witness ==
    /\ AllRowsExtract(frame, vector)
    /\ recv.done
    /\ Len(recv.vs) = MaxRows
    /\ Len(vector.VarNames) = 2

\* Every file of the list is readable and all its rows extract under v.
AllFilesExtract(files, dsk, v) ==
    \A i \in 1..Len(files) :
        /\ dsk[files[i]] # <<>>
        /\ AllRowsExtract(ReadDataFrame(dsk[files[i]][1]), v)
\* The vectors of files k.. (0-based) of the list, file by file, each in row order.
RECURSIVE FilesVectors(_, _, _, _)
FilesVectors(files, dsk, v, k) ==
    IF k >= Len(files) THEN <<>>
    ELSE RowVectors(ReadDataFrame(dsk[At(files, k)][1]), v) \o FilesVectors(files, dsk, v, k + 1)
RECURSIVE SumRows(_, _, _)
SumRows(files, dsk, k) ==
    IF k >= Len(files) THEN 0
    ELSE Len(dsk[At(files, k)][1].data) + SumRows(files, dsk, k + 1)

\* C4: for a DataSet whose cursor is 0 when DataSet.GetChanFloat64 is called
\* and whose files all load and extract, the vectors sent on the channel are
\* at any time a prefix of: the rows of files[0] in row order, then those of
\* files[1], and so on; once the channel is closed they are all of them, as
\* many as the files have rows, and that is what the consumer has received
\* when its loop ends.
C4_DataSetChanOrder ==
    (prod.pc # "none" /\ prod.start = 0 /\ AllFilesExtract(ds.Files, disk, vector)) =>
        LET all == FilesVectors(ds.Files, disk, vector, 0)
        IN /\ IsPrefix(Delivered, all)
           /\ ch.closed => /\ Delivered = all
                           /\ Len(Delivered) = SumRows(ds.Files, disk, 0)
           /\ recv.done => recv.vs = all

\* C4 witness: two different files of MaxRows rows each were received in full.
C4_Witness ==
    /\ prod.start = 0 /\ AllFilesExtract(ds.Files, disk, vector)
    /\ Len(ds.Files) = 2 /\ ds.Files[1] # ds.Files[2]
    /\ recv.done
    /\ Len(recv.vs) = 2 * MaxRows

\* C5 as stated: whatever the cursor is when DataSet.GetChanFloat64 is
\* called, the channel delivers the vectors of all the files, from files[0] on.
C5_ChanStartsAtFirstFile ==
    (recv.done /\ AllFilesExtract(ds.Files, disk, vector)) =>
        recv.vs = FilesVectors(ds.Files, disk, vector, 0)

-----------------------------------------------------------------------------
(* Further claims about GetFrameFloat64 and the column index (SpecExtract) *)

\* The contributions of the columns names[k..] (0-based), in list order.
RECURSIVE ConcatCells(_, _)
ConcatCells(names, k) ==
    IF k >= Len(names) THEN <<>>
    ELSE Contribution(CellAt(At(names, k))) \o ConcatCells(names, k + 1)

\* C11 as stated: on a frame loaded from a document without var_types, the
\* extraction of columns with numeric cells succeeds and returns the
\* concatenation of the requested cells.
C11_VarTypesOptional ==
    (/\ NamesGiven
     /\ Len(doc.var_types) = 0
     /\ Len(CallNames) >= 1
     /\ \A i \in 1..Len(CallNames) :
            IsColumn(CallNames[i]) /\ IsNumeric(CellAt(CallNames[i])))
        => /\ TheCall.out.kind = "ok"
           /\ TheCall.out.floats = ConcatCells(CallNames, 0)

\* The last position (0-based) at which var_names holds `name`.
LastPosition(names, name) ==
    CHOOSE i \in 0..(Len(names) - 1) :
        /\ At(names, i) = name
        /\ \A j \in 0..(Len(names) - 1) : At(names, j) = name => j <= i

\* C19: the column index of a loaded frame has one key per distinct name of
\* var_names and maps a name to the last position that holds it (to i for
\* names[i] when the name occurs once); a spec of one name reads the cell at
\* that last position.
C19_ColumnIndexLastWins ==
    /\ df # <<>> =>
            /\ DOMAIN TheFrame.varMap = {doc.var_names[i] : i \in 1..Len(doc.var_names)}
            /\ \A i \in 0..(Len(doc.var_names) - 1) :
                    LET n == At(doc.var_names, i)
                    IN /\ TheFrame.varMap[n] = LastPosition(doc.var_names, n)
                       /\ (\A j \in 0..(Len(doc.var_names) - 1) :
                                At(doc.var_names, j) = n => j = i) => TheFrame.varMap[n] = i
    /\ (NamesGiven /\ Len(CallNames) = 1 /\ TheCall.out.kind = "ok") =>
            LET pos == LastPosition(doc.var_names, CallNames[1])
            IN TheCall.out.floats = Contribution(At(At(doc.data, TheCall.row), pos))

\* C19 witness: var_names holds one name twice, and the spec of that name
\* returned the cell at the second position, which differs from the first.
C19_Witness ==
    /\ NamesGiven /\ Len(CallNames) = 1
    /\ Len(doc.var_names) = 2 /\ doc.var_names[1] = doc.var_names[2]
    /\ CallNames[1] = doc.var_names[1]
    /\ TheCall.out.kind = "ok"
    /\ TheCall.out.floats = Contribution(doc.data[1][2])
    /\ TheCall.out.floats # Contribution(doc.data[1][1])

-----------------------------------------------------------------------------
(* Further claims about Next and Reset (Spec) *)

\* The last call of hist' is a new call of Reset.
ResetCalled == Len(hist') = Len(hist) + 1 /\ hist'[Len(hist')].op = "Reset"

\* C13: Reset sets the index to 0 from any index and changes neither Path
\* nor Files nor the files; the first successful Next after a Reset (with
\* only failed loads in between) returns the frame of files[0].
C13_ResetOnlyRewinds ==
    /\ [][ResetCalled => /\ ds'.index = 0
                         /\ ds'.Path = ds.Path /\ ds'.Files = ds.Files
                         /\ disk' = disk]_vars
    /\ [](\A p \in 1..Len(hist) : hist[p].op = "Reset" =>
            /\ hist[p].index = 0
            /\ \A q \in (p + 1)..Len(hist) :
                    (/\ hist[q].op = "Next" /\ hist[q].e = "nil"
                     /\ \A j \in (p + 1)..(q - 1) :
                            hist[j].op = "Next" /\ hist[j].e = "error")
                        => hist[q].df = FrameOfFile(0) /\ hist[q].index = 1)

\* C13 witness: a Reset at the index 2 was followed by a Next that returned
\* the frame of files[0].
C13_Witness ==
    \E p \in 2..(Len(hist) - 1) :
        /\ hist[p].op = "Reset" /\ CursorBefore(p) = 2
        /\ hist[p + 1].op = "Next" /\ hist[p + 1].e = "nil"
        /\ hist[p + 1].df = FrameOfFile(0)
        /\ ds.Files[1] # ds.Files[2]

\* C17: a Next whose load fails returns the error and no frame and leaves
\* the index where it was; the index is incremented by the calls that load
\* a frame and by no other; the Next that follows a failed one tries the
\* same file, and returns its frame when the load then succeeds.
C17_FailedLoadKeepsCursor ==
    \A p \in 1..Len(hist) : hist[p].op = "Next" =>
        /\ hist[p].e = "error" =>
                /\ hist[p].index = CursorBefore(p)
                /\ hist[p].df = <<>>
                /\ (p < Len(hist) /\ hist[p + 1].op = "Next") =>
                        \/ hist[p + 1].e = "error" /\ hist[p + 1].index = CursorBefore(p)
                        \/ /\ hist[p + 1].e = "nil"
                           /\ hist[p + 1].df = FrameOfFile(CursorBefore(p))
                           /\ hist[p + 1].index = CursorBefore(p) + 1
        /\ hist[p].index = CursorBefore(p) + 1 <=> hist[p].e = "nil"

\* C17 witness: a failed Next at index 1 is followed by a Next that loads files[1].
C17_Witness ==
    \E p \in 1..(Len(hist) - 1) :
        /\ hist[p].op = "Next" /\ hist[p].e = "error" /\ CursorBefore(p) = 1
        /\ hist[p + 1].op = "Next" /\ hist[p + 1].e = "nil"
        /\ hist[p + 1].df = FrameOfFile(1)

-----------------------------------------------------------------------------
(* Further claims about the channels *)

\* The producer goroutine extracts a row in this step.
ExtractsRow == prod.pc = "row" /\ prod.i < Len(frame.Data) /\ prod' # prod
\* The producer goroutine takes a step of any kind.
ProducerSteps == prod' # prod
ChanFull == Len(ch.buf) = BUFFER_SIZE

\* C14 as stated: the channel never holds more than BUFFER_SIZE vectors, and
\* while it holds BUFFER_SIZE vectors the producer extracts no row.
C14_FullQueueStopsExtraction ==
    /\ [](Len(ch.buf) <= BUFFER_SIZE)
    /\ [][ChanFull => ~ExtractsRow]_vars

\* C14 amended: the channel never holds more than BUFFER_SIZE vectors; while
\* it holds BUFFER_SIZE vectors nothing is added to it; a producer that
\* holds an extracted vector while the channel is full takes no step until
\* the consumer has received, so that it is at most one row ahead of the
\* full channel.
C14_FullQueueBlocksSend ==
    /\ [](Len(ch.buf) <= BUFFER_SIZE)
    /\ [][ChanFull => Len(ch'.buf) <= BUFFER_SIZE /\ (ch'.buf = ch.buf \/ ch'.buf = Tail(ch.buf))]_vars
    /\ [][(ChanFull /\ prod.pc = "send") => ~ProducerSteps]_vars

\* C14 witness: the channel is full and the producer waits with the vector
\* of one more row.
C14_Witness ==
    /\ ChanFull
    /\ prod.pc = "send" /\ prod.sl # <<>>
    /\ prod.i = BUFFER_SIZE
    /\ ~ch.closed

\* The vectors of the rows i.. (0-based) of frame f up to the first row that
\* does not extract under v.
RECURSIVE RowsUntilFailure(_, _, _)
RowsUntilFailure(f, v, i) ==
    IF i >= Len(f.Data) \/ GetFrameFloat64(f, i, v).kind # "ok" THEN <<>>
    ELSE <<GetFrameFloat64(f, i, v).floats>> \o RowsUntilFailure(f, v, i + 1)

\* The producer's run over files k.. (0-based) of the list: the vectors up to
\* the first load or extraction that fails, and whether one fails.
RECURSIVE StreamUntilFailure(_, _, _, _)
StreamUntilFailure(files, dsk, v, k) ==
    IF k >= Len(files) THEN [vs |-> <<>>, fails |-> FALSE]
    ELSE IF dsk[At(files, k)] = <<>> THEN [vs |-> <<>>, fails |-> TRUE]
    ELSE LET f == ReadDataFrame(dsk[At(files, k)][1])
             rows == RowsUntilFailure(f, v, 0)
         IN IF Len(rows) < Len(f.Data)
            THEN [vs |-> rows, fails |-> TRUE]
            ELSE LET rest == StreamUntilFailure(files, dsk, v, k + 1)
                 IN [vs |-> rows \o rest.vs, fails |-> rest.fails]

\* C16: the vectors sent by a producer are at any time a prefix of those of
\* the rows before the first extraction or load that fails, in order; when
\* something fails the channel is never closed and the consumer's loop
\* never ends normally; a producer that has aborted has sent exactly the
\* vectors before the failure.
C16_ProducerAbortsAtFailure ==
    prod.pc # "none" =>
        LET run == StreamUntilFailure(ds.Files, disk, vector, prod.start)
        IN /\ IsPrefix(Delivered, run.vs)
           /\ run.fails => ~ch.closed /\ ~recv.done
           /\ prod.pc = "fatal" =>
                   /\ run.fails
                   /\ Delivered = run.vs
                   /\ ~ch.closed

\* C16 witness: the producer aborted at a row that is not the last of its
\* frame, after vectors of earlier rows were sent.
C16_Witness ==
    /\ prod.pc = "fatal"
    /\ Delivered # <<>>
    /\ prod.i >= 1 /\ prod.i < Len(frame.Data) - 1
    /\ GetFrameFloat64(frame, prod.i, vector).kind = "err"
    /\ GetFrameFloat64(frame, prod.i + 1, vector).kind = "ok"

\* C15 as stated: over files that all load and extract and with a consumer
\* that keeps receiving, the producer eventually closes the channel; the
\* channel is closed only after the last row of the last file was sent and
\* with the index at 0; a second channel opened after the first was
\* received in full delivers the same vectors as the first.
C15_SecondStreamDeliversTheSame ==
    /\ [](AllFilesExtract(ds.Files, disk, vector) =>
            /\ ch.closed =>
                    /\ ds.index = 0 /\ prod.pc = "done"
                    /\ Delivered = FilesVectors(ds.Files, disk, vector, prod.start)
            /\ (recv.first # <<>> /\ recv.done) => recv.vs = recv.first[1])
    /\ (AllFilesExtract(ds.Files, disk, vector) /\ prod.pc = "next") ~> ch.closed

\* The rows of the frame that the consumer has not received.
Remaining == Len(frame.Data) - Len(recv.vs)

\* C18: after the consumer of the channel of DataFrame.GetChanFloat64 has
\* stopped receiving, over a frame whose rows all extract: when at most
\* BUFFER_SIZE rows are not received the producer sends them all, closes the
\* channel and ends; when more are not received the channel is never closed
\* and the producer ends up waiting for ever at its send on a full channel.
C18_AbandonedProducer ==
    /\ []((AllRowsExtract(frame, vector) /\ recv.stopped /\ Remaining <= BUFFER_SIZE)
            => <>(ch.closed /\ prod.pc = "done" /\ Delivered = RowVectors(frame, vector)))
    /\ []((AllRowsExtract(frame, vector) /\ recv.stopped /\ Remaining > BUFFER_SIZE)
            => /\ ~ch.closed /\ prod.pc # "done"
               /\ <>[](prod.pc = "send" /\ ChanFull /\ ~ch.closed))

\* C18 witness: the consumer has stopped, and the producer waits at its send
\* on a full channel with more rows unreceived than the channel holds.
C18_Witness ==
    /\ AllRowsExtract(frame, vector)
    /\ recv.stopped
    /\ Remaining > BUFFER_SIZE
    /\ prod.pc = "send" /\ ChanFull

-----------------------------------------------------------------------------
(* SpecRace: two goroutines of DataSet.GetChanFloat64 call Next on one DataSet *)

Tasks == {1, 2}
Other(t) == 3 - t

\* Mutant of NextAtEnd: the end of the list is never seen.
NextAtEndNever(d) == FALSE

\* if ds.index == len(ds.Files)
NextAtEnd(d) == d.index = Len(d.Files)

\* No goroutine has ended the process (index out of range, or glog.Fatalf).
Running == \A t \in Tasks : tasks.pc[t] \notin {"panic", "fatal"}
InNext(t) == tasks.pc[t] \in {"load", "inc"}

\* Task t enters Next and tests the index: at the end of the list it sets
\* the index to 0, gets io.EOF and closes its channel.
RaceTest(t) ==
    /\ Running /\ tasks.pc[t] = "test"
    /\ IF NextAtEnd(ds)
       THEN /\ ds' = [ds EXCEPT !.index = 0]
            /\ tasks' = [tasks EXCEPT !.pc[t] = "done", !.ended = TRUE]
       ELSE /\ ds' = ds
            /\ tasks' = [tasks EXCEPT !.pc[t] = "load",
                                      !.overlapped = @ \/ InNext(Other(t))]
    /\ UNCHANGED <<doc, df, call, disk, hist, vector, frame, prod, ch, recv>>

\* Task t loads ds.Files[ds.index], with the index as it is now.
RaceLoad(t) ==
    /\ Running /\ tasks.pc[t] = "load"
    /\ tasks' = IF ds.index >= Len(ds.Files)
                THEN [tasks EXCEPT !.pc[t] = "panic"]
                ELSE IF ReadDataFrameFile(disk, At(ds.Files, ds.index)).e # "nil"
                THEN [tasks EXCEPT !.pc[t] = "fatal"]
                ELSE [tasks EXCEPT !.pc[t] = "inc",
                                   !.loaded[t] = Append(@, ds.index)]
    /\ UNCHANGED <<doc, df, call, disk, ds, hist, vector, frame, prod, ch, recv>>

\* Task t runs ds.index++, returns from Next and sends the rows of its frame.
RaceInc(t) ==
    /\ Running /\ tasks.pc[t] = "inc"
    /\ ds' = [ds EXCEPT !.index = ds.index + 1]
    /\ tasks' = [tasks EXCEPT !.pc[t] = "test"]
    /\ UNCHANGED <<doc, df, call, disk, hist, vector, frame, prod, ch, recv>>

InitRace ==
    /\ ds \in DataSets
    /\ disk \in {d \in PlainDisks : d \in DisksFor(ds.Files)}
    /\ doc = NoDoc /\ df = <<>> /\ call = <<>> /\ hist = <<>>
    /\ vector = NilVector /\ frame = NoFrame
    /\ prod = NoProd /\ ch = NoChan /\ recv = NoRecv
    /\ tasks = [pc |-> [t \in Tasks |-> "test"], loaded |-> [t \in Tasks |-> <<>>],
                overlapped |-> FALSE, ended |-> FALSE]

NextRace == \E t \in Tasks : RaceTest(t) \/ RaceLoad(t) \/ RaceInc(t)

SpecRace == InitRace /\ [][NextRace]_vars

\* Task t loaded file k (0-based), whose rows its channel then delivers.
Loaded(t, k) == \E i \in 1..Len(tasks.loaded[t]) : tasks.loaded[t][i] = k
CursorPastEnd == ds.index > Len(ds.Files)
DeliveredByBoth == \E k \in 0..(Len(ds.Files) - 1) : Loaded(1, k) /\ Loaded(2, k)
\* Both tasks have stopped, by closing their channel or with the process, and
\* a file was loaded by neither.
DeliveredByNeither ==
    /\ \A t \in Tasks : tasks.pc[t] = "done" \/ ~Running
    /\ \E k \in 0..(Len(ds.Files) - 1) : ~Loaded(1, k) /\ ~Loaded(2, k)

\* C12: two tasks that call Next on one DataSet reach a bad state (the
\* witness), and they reach it through calls of Next that overlap: as long
\* as no call of Next began while the other task was inside Next, the index
\* is at most len(Files) and no load indexes Files out of range, no file is
\* loaded by both tasks before one of them met the end of the list, and no
\* file is left out unless a file could not be read.
C12_BadStateNeedsOverlap ==
    ~tasks.overlapped =>
        /\ ~CursorPastEnd
        /\ \A t \in Tasks : tasks.pc[t] # "panic"
        /\ ~tasks.ended => ~DeliveredByBoth
        /\ DeliveredByNeither => \E t \in Tasks : tasks.pc[t] = "fatal"

\* C12 witness: over two files the index is greater than len(Files), a file
\* was loaded by both tasks, and a load has indexed Files out of range.
C12_Witness ==
    /\ Len(ds.Files) = 2
    /\ CursorPastEnd
    /\ DeliveredByBoth
    /\ \E t \in Tasks : tasks.pc[t] = "panic"

=============================================================================
